---- MODULE Spec2Model ----
(***************************************************************************)
(* Mergington High School activities API (src/src/app.py).                 *)
(*                                                                         *)
(* The store is the two SQL tables Activity and Participant.  FastAPI runs *)
(* the synchronous handlers in a thread pool, so several requests can be   *)
(* in flight; each handler opens its own Session and issues its SQL        *)
(* statements one after the other.  A handler is therefore modelled as the *)
(* sequence of its statements (session.get, select ... first, commit),     *)
(* each statement being one atomic step against the store.  Spec allows    *)
(* every interleaving of those steps; SpecSerial runs one request at a     *)
(* time.                                                                   *)
(***************************************************************************)
EXTENDS Integers, Sequences, FiniteSets

\* Number of requests that can be in flight at once.
NumProcs == 2

Procs == 1..NumProcs

\* Signups are taken while at most this many ids below the largest id in use
\* are free (ids freed by unregistering); it keeps the ids finite.
MaxGaps == 1

\* Path and query parameters the requests are drawn from: the seeded activity
\* with the smallest max_participants and a name that is in no catalog; a
\* student who is seeded in that activity, beside another student.
ActivityNames == {"Math Club", "Robotics Club"}
Emails == {"james@mergington.edu"}

\* The seed catalog of init_db_with_seed, in dict order.
seed ==
    << [name |-> "Chess Club",
        description |-> "Learn strategies and compete in chess tournaments",
        schedule |-> "Fridays, 3:30 PM - 5:00 PM",
        max_participants |-> 12,
        participants |-> <<"michael@mergington.edu", "daniel@mergington.edu">>],
       [name |-> "Programming Class",
        description |-> "Learn programming fundamentals and build software projects",
        schedule |-> "Tuesdays and Thursdays, 3:30 PM - 4:30 PM",
        max_participants |-> 20,
        participants |-> <<"emma@mergington.edu", "sophia@mergington.edu">>],
       [name |-> "Gym Class",
        description |-> "Physical education and sports activities",
        schedule |-> "Mondays, Wednesdays, Fridays, 2:00 PM - 3:00 PM",
        max_participants |-> 30,
        participants |-> <<"john@mergington.edu", "olivia@mergington.edu">>],
       [name |-> "Soccer Team",
        description |-> "Join the school soccer team and compete in matches",
        schedule |-> "Tuesdays and Thursdays, 4:00 PM - 5:30 PM",
        max_participants |-> 22,
        participants |-> <<"liam@mergington.edu", "noah@mergington.edu">>],
       [name |-> "Basketball Team",
        description |-> "Practice and play basketball with the school team",
        schedule |-> "Wednesdays and Fridays, 3:30 PM - 5:00 PM",
        max_participants |-> 15,
        participants |-> <<"ava@mergington.edu", "mia@mergington.edu">>],
       [name |-> "Art Club",
        description |-> "Explore your creativity through painting and drawing",
        schedule |-> "Thursdays, 3:30 PM - 5:00 PM",
        max_participants |-> 15,
        participants |-> <<"amelia@mergington.edu", "harper@mergington.edu">>],
       [name |-> "Drama Club",
        description |-> "Act, direct, and produce plays and performances",
        schedule |-> "Mondays and Wednesdays, 4:00 PM - 5:30 PM",
        max_participants |-> 20,
        participants |-> <<"ella@mergington.edu", "scarlett@mergington.edu">>],
       [name |-> "Math Club",
        description |-> "Solve challenging problems and participate in math competitions",
        schedule |-> "Tuesdays, 3:30 PM - 4:30 PM",
        max_participants |-> 10,
        participants |-> <<"james@mergington.edu", "benjamin@mergington.edu">>],
       [name |-> "Debate Team",
        description |-> "Develop public speaking and argumentation skills",
        schedule |-> "Fridays, 4:00 PM - 5:30 PM",
        max_participants |-> 12,
        participants |-> <<"charlotte@mergington.edu", "henry@mergington.edu">>] >>

VARIABLES
    Activity,       \* table activity: its rows, in insertion order
    Participant,    \* table participant: a set of rows with distinct ids
    started,        \* the application has run its startup event and serves
    pc,             \* pc[p]: the statement request p executes next
    request,        \* request[p]: operation and parameters of request p
    participant,    \* participant[p]: the local `participant` of unregister
    solo,           \* the request in flight has not overlapped another one
    last            \* the operation completed last, with its outcome

vars == <<Activity, Participant, started, pc, request, participant, solo, last>>

----------------------------------------------------------------------------
\* Rows and responses

ActivityRow(name, description, schedule, max_participants) ==
    [name |-> name, description |-> description, schedule |-> schedule,
     max_participants |-> max_participants]

ParticipantRow(id, email, activity_name) ==
    [id |-> id, email |-> email, activity_name |-> activity_name]

\* Python's None, for the local `participant` and for absent parameters.
None == ParticipantRow(0, "", "")

NoRequest == [op |-> "", activity_name |-> "", email |-> ""]

\* The id the store gives a new participant row.  The default store is
\* SQLite, whose INTEGER PRIMARY KEY is the largest rowid in use plus one.
NextId(rows) ==
    IF rows = {} THEN 1
    ELSE (CHOOSE i \in {r.id : r \in rows} : \A r \in rows : r.id <= i) + 1

\* raise HTTPException(status_code, detail)
HTTPException(status_code, detail) ==
    [status |-> status_code, body |-> [detail |-> detail]]

\* return {"message": ...}; the f-string is kept as its pieces.
Message(pieces) == [status |-> 200, body |-> [message |-> pieces]]

\* What `last` records of a finished operation.
Outcome(req, response, alone) ==
    [request |-> req, response |-> response, alone |-> alone]

AllIdle == \A q \in Procs : pc[q] = "idle"

----------------------------------------------------------------------------
\* Queries

ActivityNamesIn(table) == {table[i].name : i \in DOMAIN table}

\* session_get, had it returned the rows of the table whatever the key.
session_get_any(activity_name) == {Activity[i] : i \in DOMAIN Activity}

\* session.get(Activity, activity_name): the row, or nothing.
session_get(activity_name) ==
    {Activity[i] : i \in {j \in DOMAIN Activity : Activity[j].name = activity_name}}

\* select_participant, had its where clause compared the email column with
\* the activity name.
select_participant_wrong_column(activity_name, email) ==
    {r \in Participant : r.activity_name = activity_name /\ r.email = activity_name}

\* select(Participant).where((Participant.activity_name == activity_name)
\*                           & (Participant.email == email))
select_participant(activity_name, email) ==
    {r \in Participant : r.activity_name = activity_name /\ r.email = email}

\* participants_of, had the relationship not been restricted by the foreign
\* key.
participants_of_any(a) == Participant

\* a.participants: the rows the foreign key activity_name relates to a.
participants_of(a) == {r \in Participant : r.activity_name = a.name}

\* [p.email for p in rows], the rows read in rowid order: the k-th email is
\* that of the row with k - 1 rows of smaller id.
emails_of(rows) ==
    [k \in 1..Cardinality(rows) |->
        (CHOOSE r \in rows : Cardinality({x \in rows : x.id < r.id}) = k - 1).email]

\* The row of the Activity table that ends up under key n of a dict filled
\* in table order: the last one of that name.
activity_named(n) ==
    Activity[CHOOSE j \in DOMAIN Activity :
                /\ Activity[j].name = n
                /\ \A k \in DOMAIN Activity : Activity[k].name = n => k <= j]

\* The dict activities_as_dict builds.
activities_as_dict ==
    [n \in ActivityNamesIn(Activity) |->
        [description |-> activity_named(n).description,
         schedule |-> activity_named(n).schedule,
         max_participants |-> activity_named(n).max_participants,
         participants |-> emails_of(participants_of(activity_named(n)))]]

----------------------------------------------------------------------------
\* Seeding

\* session.add(Participant(email=email, activity_name=name)) for each email,
\* flushed in the order added.
RECURSIVE add_participants(_, _, _)
add_participants(emails, name, rows) ==
    IF emails = <<>> THEN rows
    ELSE add_participants(Tail(emails), name,
            rows \cup {ParticipantRow(NextId(rows), Head(emails), name)})

seed_activities ==
    [i \in DOMAIN seed |->
        ActivityRow(seed[i].name, seed[i].description, seed[i].schedule,
                    seed[i].max_participants)]

RECURSIVE seed_participants(_, _)
seed_participants(i, rows) ==
    IF i > Len(seed) THEN rows
    ELSE seed_participants(i + 1,
            add_participants(seed[i].participants, seed[i].name, rows))

\* seed_needed, had the emptiness test been left out.
seed_always == TRUE

\* `first = session.exec(select(Activity)).first()`; seeding runs when there
\* is no first row.
seed_needed == Activity = <<>>

\* A database file left by an earlier run of the application: the seeded
\* store after james@mergington.edu was unregistered from "Math Club" and
\* nine more students signed up for it, which then holds as many
\* participants as its max_participants.
MathClubSignups ==
    << "s1@mergington.edu", "s2@mergington.edu", "s3@mergington.edu",
       "s4@mergington.edu", "s5@mergington.edu", "s6@mergington.edu",
       "s7@mergington.edu", "s8@mergington.edu", "s9@mergington.edu" >>

EarlierRunStore ==
    [Activity |-> seed_activities,
     Participant |->
        add_participants(MathClubSignups, "Math Club",
           {r \in seed_participants(1, {}) :
               ~(r.activity_name = "Math Club" /\ r.email = "james@mergington.edu")})]

NewStore == [Activity |-> <<>>, Participant |-> {}]

\* The store at DATABASE_URL when the module is loaded: a new database, or
\* the one an earlier run left.
Init ==
    /\ \E db \in {NewStore, EarlierRunStore} :
          /\ Activity = db.Activity
          /\ Participant = db.Participant
    /\ started = FALSE
    /\ pc = [p \in Procs |-> "idle"]
    /\ request = [p \in Procs |-> NoRequest]
    /\ participant = [p \in Procs |-> None]
    /\ solo = TRUE
    /\ last = Outcome(NoRequest, [status |-> 0, body |-> [detail |-> ""]], TRUE)

init_db_with_seed ==
    IF seed_needed
    THEN /\ Activity' = Activity \o seed_activities
         /\ Participant' = seed_participants(1, Participant)
         /\ last' = Outcome([NoRequest EXCEPT !.op = "startup"],
                            [status |-> 0, body |-> [detail |-> "seeded"]], TRUE)
    ELSE /\ UNCHANGED <<Activity, Participant>>
         /\ last' = Outcome([NoRequest EXCEPT !.op = "startup"],
                            [status |-> 0, body |-> [detail |-> "skipped"]], TRUE)

\* @app.on_event("startup")
on_startup ==
    /\ ~started
    /\ init_db_with_seed
    /\ started' = TRUE
    /\ UNCHANGED <<pc, request, participant, solo>>

\* The process stops once its requests are served; the store stays.
shutdown ==
    /\ started
    /\ AllIdle
    /\ started' = FALSE
    /\ UNCHANGED <<Activity, Participant, pc, request, participant, solo, last>>

----------------------------------------------------------------------------
\* Requests

\* The handler of request p returns or raises `response`.
Complete(p, response) ==
    /\ pc' = [pc EXCEPT ![p] = "idle"]
    /\ request' = [request EXCEPT ![p] = NoRequest]
    /\ participant' = [participant EXCEPT ![p] = None]
    /\ solo' = \A q \in Procs \ {p} : pc[q] = "idle"
    /\ last' = Outcome(request[p], response, solo)
    /\ UNCHANGED started

\* A request arrives and its handler is entered.
Receive(p, op, activity_name, email) ==
    /\ started
    /\ pc[p] = "idle"
    /\ pc' = [pc EXCEPT ![p] = op \o "_get"]
    /\ request' = [request EXCEPT ![p] =
                      [op |-> op, activity_name |-> activity_name, email |-> email]]
    /\ solo' = AllIdle
    /\ UNCHANGED <<Activity, Participant, started, participant, last>>

\* GET /activities
get_activities(p) ==
    /\ started
    /\ pc[p] = "idle"
    /\ last' = Outcome([NoRequest EXCEPT !.op = "list"],
                       [status |-> 200, body |-> activities_as_dict], AllIdle)
    /\ solo' = AllIdle
    /\ UNCHANGED <<Activity, Participant, started, pc, request, participant>>

\* POST /activities/{activity_name}/signup?email=...
post_signup(p, activity_name, email) ==
    /\ NextId(Participant) - 1 - Cardinality(Participant) <= MaxGaps
    /\ Receive(p, "signup", activity_name, email)

\* signup_get, had it not raised for an unknown activity.
signup_get_unchecked(p) ==
    /\ pc[p] = "signup_get"
    /\ pc' = [pc EXCEPT ![p] = "signup_select"]
    /\ UNCHANGED <<Activity, Participant, started, request, participant, solo, last>>

\* activity = session.get(Activity, activity_name); if not activity: raise
signup_get(p) ==
    /\ pc[p] = "signup_get"
    /\ IF session_get(request[p].activity_name) = {}
       THEN Complete(p, HTTPException(404, "Activity not found"))
       ELSE /\ pc' = [pc EXCEPT ![p] = "signup_select"]
            /\ UNCHANGED <<started, request, participant, solo, last>>
    /\ UNCHANGED <<Activity, Participant>>

\* signup_select, had it refused a full activity.
signup_select_capacity(p) ==
    /\ pc[p] = "signup_select"
    /\ IF \/ select_participant(request[p].activity_name, request[p].email) # {}
          \/ \E a \in session_get(request[p].activity_name) :
                Cardinality(participants_of(a)) >= a.max_participants
       THEN Complete(p, HTTPException(400, "Student is already signed up"))
       ELSE /\ pc' = [pc EXCEPT ![p] = "signup_commit"]
            /\ UNCHANGED <<started, request, participant, solo, last>>
    /\ UNCHANGED <<Activity, Participant>>

\* signup_select, had it not raised for an existing row.
signup_select_unchecked(p) ==
    /\ pc[p] = "signup_select"
    /\ pc' = [pc EXCEPT ![p] = "signup_commit"]
    /\ UNCHANGED <<Activity, Participant, started, request, participant, solo, last>>

\* existing = session.exec(select ...).first(); if existing: raise
signup_select(p) ==
    /\ pc[p] = "signup_select"
    /\ IF select_participant(request[p].activity_name, request[p].email) # {}
       THEN Complete(p, HTTPException(400, "Student is already signed up"))
       ELSE /\ pc' = [pc EXCEPT ![p] = "signup_commit"]
            /\ UNCHANGED <<started, request, participant, solo, last>>
    /\ UNCHANGED <<Activity, Participant>>

\* signup_commit, had the table a unique constraint on (activity_name,
\* email): the insert of a second row fails.
signup_commit_unique(p) ==
    /\ pc[p] = "signup_commit"
    /\ IF select_participant(request[p].activity_name, request[p].email) # {}
       THEN /\ Complete(p, HTTPException(500, "Internal Server Error"))
            /\ UNCHANGED Participant
       ELSE /\ Participant' = Participant \cup
                  {ParticipantRow(NextId(Participant), request[p].email,
                                  request[p].activity_name)}
            /\ Complete(p, Message(<<"Signed up ", request[p].email, " for ",
                                     request[p].activity_name>>))
    /\ UNCHANGED Activity

\* session.add(Participant(...)); session.commit(); return {"message": ...}
signup_commit(p) ==
    /\ pc[p] = "signup_commit"
    /\ Participant' = Participant \cup
          {ParticipantRow(NextId(Participant), request[p].email,
                          request[p].activity_name)}
    /\ Complete(p, Message(<<"Signed up ", request[p].email, " for ",
                             request[p].activity_name>>))
    /\ UNCHANGED Activity

signup_for_activity(p) == signup_get(p) \/ signup_select(p) \/ signup_commit(p)

\* DELETE /activities/{activity_name}/unregister?email=...
delete_unregister(p, activity_name, email) ==
    Receive(p, "unregister", activity_name, email)

unregister_get(p) ==
    /\ pc[p] = "unregister_get"
    /\ IF session_get(request[p].activity_name) = {}
       THEN Complete(p, HTTPException(404, "Activity not found"))
       ELSE /\ pc' = [pc EXCEPT ![p] = "unregister_select"]
            /\ UNCHANGED <<started, request, participant, solo, last>>
    /\ UNCHANGED <<Activity, Participant>>

\* unregister_select, had it not raised when no row is found.
unregister_select_unchecked(p) ==
    /\ pc[p] = "unregister_select"
    /\ LET found == select_participant(request[p].activity_name, request[p].email)
       IN  \E r \in found \cup {None} :
              participant' = [participant EXCEPT ![p] = r]
    /\ pc' = [pc EXCEPT ![p] = "unregister_delete"]
    /\ UNCHANGED <<Activity, Participant, started, request, solo, last>>

\* participant = session.exec(select ...).first(); if not participant: raise.
\* The select has no ORDER BY: any matching row can be the first.
unregister_select(p) ==
    /\ pc[p] = "unregister_select"
    /\ LET found == select_participant(request[p].activity_name, request[p].email)
       IN  IF found = {}
           THEN Complete(p, HTTPException(400,
                              "Student is not signed up for this activity"))
           ELSE /\ \E r \in found : participant' = [participant EXCEPT ![p] = r]
                /\ pc' = [pc EXCEPT ![p] = "unregister_delete"]
                /\ UNCHANGED <<started, request, solo, last>>
    /\ UNCHANGED <<Activity, Participant>>

\* unregister_delete, had it deleted by activity_name and email instead of
\* by the primary key of the row found.
unregister_delete_pair(p) ==
    /\ pc[p] = "unregister_delete"
    /\ Participant' = Participant \
          select_participant(request[p].activity_name, request[p].email)
    /\ Complete(p, Message(<<"Unregistered ", request[p].email, " from ",
                             request[p].activity_name>>))
    /\ UNCHANGED Activity

\* session.delete(participant); session.commit(): DELETE ... WHERE id = the
\* primary key of the row found.  A delete that matches no row any more only
\* warns, and the handler still returns its message.
unregister_delete(p) ==
    /\ pc[p] = "unregister_delete"
    /\ Participant' = {r \in Participant : r.id # participant[p].id}
    /\ Complete(p, Message(<<"Unregistered ", request[p].email, " from ",
                             request[p].activity_name>>))
    /\ UNCHANGED Activity

unregister_from_activity(p) ==
    unregister_get(p) \/ unregister_select(p) \/ unregister_delete(p)

Handle(p) ==
    \/ get_activities(p)
    \/ \E a \in ActivityNames, e \in Emails : post_signup(p, a, e)
    \/ \E a \in ActivityNames, e \in Emails : delete_unregister(p, a, e)
    \/ signup_for_activity(p)
    \/ unregister_from_activity(p)

\* Requests served by the thread pool, their statements interleaved.
Next == on_startup \/ shutdown \/ \E p \in Procs : Handle(p)

Spec == Init /\ [][Next]_vars

\* Requests served one at a time: a request is taken up only when no other
\* request is in flight.
Alone(p) == \A q \in Procs \ {p} : pc[q] = "idle"

HandleAlone(p) ==
    \/ Alone(p) /\ get_activities(p)
    \/ Alone(p) /\ \E a \in ActivityNames, e \in Emails : post_signup(p, a, e)
    \/ Alone(p) /\ \E a \in ActivityNames, e \in Emails : delete_unregister(p, a, e)
    \/ Alone(p) /\ signup_get(p)
    \/ Alone(p) /\ signup_select(p)
    \/ Alone(p) /\ signup_commit(p)
    \/ Alone(p) /\ unregister_get(p)
    \/ Alone(p) /\ unregister_select(p)
    \/ Alone(p) /\ unregister_delete(p)

NextSerial == on_startup \/ shutdown \/ \E p \in Procs : HandleAlone(p)

SpecSerial == Init /\ [][NextSerial]_vars

----------------------------------------------------------------------------
\* Vocabulary of the properties

\* Request p takes the step that ends its handler.
Completes(p) == pc[p] # "idle" /\ pc'[p] = "idle"

\* Request p takes a step.
Steps(p) == pc'[p] # pc[p]

\* The rows of the pair (activity_name, email).
RowsOf(activity_name, email) ==
    {r \in Participant : r.activity_name = activity_name /\ r.email = email}

\* How often list-activities shows email under activity_name.
TimesListed(activity_name, email) ==
    IF activity_name \in ActivityNamesIn(Activity)
    THEN Cardinality({i \in DOMAIN activities_as_dict[activity_name].participants :
                        activities_as_dict[activity_name].participants[i] = email})
    ELSE 0

Listed(activity_name, email) == TimesListed(activity_name, email) > 0

ListLen(activity_name) == Len(activities_as_dict[activity_name].participants)

Pair(req) == <<req.activity_name, req.email>>

SignedUp(req) ==
    Message(<<"Signed up ", req.email, " for ", req.activity_name>>)

Unregistered(req) ==
    Message(<<"Unregistered ", req.email, " from ", req.activity_name>>)

NotFound == HTTPException(404, "Activity not found")
AlreadyRegistered == HTTPException(400, "Student is already signed up")
NotRegistered == HTTPException(400, "Student is not signed up for this activity")

----------------------------------------------------------------------------
\* C1: a signup that is not interleaved with another request succeeds
\* exactly when the activity exists and the pair has no row, however many
\* participants the activity has against its max_participants; on success
\* exactly one row (email, activity_name) is added, the response is the
\* message "Signed up {email} for {activity_name}" and the email is listed;
\* and while requests run one at a time a listed email stays listed until an
\* unregister of its pair.
C1_SignupContract ==
    [][ /\ \A p \in Procs :
            (Completes(p) /\ request[p].op = "signup" /\ solo) =>
               \A a \in {request[p].activity_name}, e \in {request[p].email} :
                  IF a \in ActivityNamesIn(Activity) /\ RowsOf(a, e) = {}
                  THEN /\ last'.response = SignedUp(request[p])
                       /\ \E r \in Participant' :
                             /\ r \notin Participant
                             /\ Participant' = Participant \cup {r}
                             /\ r.email = e
                             /\ r.activity_name = a
                       /\ Activity' = Activity
                       /\ Listed(a, e)'
                  ELSE /\ last'.response.status # 200
                       /\ UNCHANGED <<Activity, Participant>>
        /\ (solo /\ <<Activity, Participant>>' # <<Activity, Participant>>) =>
              \A before \in {activities_as_dict}, after \in {activities_as_dict'} :
                  \A a \in DOMAIN before :
                     \A i \in DOMAIN before[a].participants :
                        \/ /\ a \in DOMAIN after
                           /\ \E j \in DOMAIN after[a].participants :
                                 after[a].participants[j] = before[a].participants[i]
                        \/ \E p \in Procs :
                              /\ Completes(p)
                              /\ request[p].op = "unregister"
                              /\ Pair(request[p]) = <<a, before[a].participants[i]>>
      ]_vars

\* A signup served alone succeeded for an activity that then holds more
\* participants than its max_participants.
C1_Witness ==
    /\ last.request.op = "signup"
    /\ last.alone
    /\ last.response = SignedUp(last.request)
    /\ \E a \in session_get(last.request.activity_name) :
          Cardinality(participants_of(a)) > a.max_participants

\* C2: signing up the same pair twice in a row: the second call, made right
\* after the first succeeded, fails with 400 "Student is already signed up"
\* and the activity's participant list keeps its size; so does any signup
\* for a pair that has a row.
C2_SecondSignupFails ==
    [][ \A p \in Procs :
          \A a \in {request[p].activity_name}, e \in {request[p].email} :
              /\ ( /\ Completes(p) /\ request[p].op = "signup" /\ solo
                   /\ last.request = request[p]
                   /\ last.response = SignedUp(request[p]) ) =>
                      /\ last'.response = AlreadyRegistered
                      /\ ListLen(a)' = ListLen(a)
              /\ ( /\ Completes(p) /\ request[p].op = "signup" /\ solo
                   /\ a \in ActivityNamesIn(Activity)
                   /\ RowsOf(a, e) # {} ) =>
                      /\ last'.response = AlreadyRegistered
                      /\ ListLen(a)' = ListLen(a)
                      /\ UNCHANGED <<Activity, Participant>>
      ]_vars

\* A signup served alone was refused as already signed up.
C2_Witness ==
    /\ last.request.op = "signup"
    /\ last.alone
    /\ last.response = AlreadyRegistered
    /\ Listed(last.request.activity_name, last.request.email)

\* C3: a signup for a name that is not in the Activity table ends at the
\* activity lookup, before any lookup of the participant, with 404
\* "Activity not found" and both tables unchanged; this in every state and
\* under every interleaving.
C3_SignupUnknownActivity ==
    [][ \A p \in Procs :
          ( /\ Steps(p) /\ request[p].op = "signup"
            /\ request[p].activity_name \notin ActivityNamesIn(Activity) ) =>
               /\ pc[p] = "signup_get"
               /\ pc'[p] = "idle"
               /\ last'.request = request[p]
               /\ last'.response = NotFound
               /\ UNCHANGED <<Activity, Participant>>
      ]_vars

\* A signup for an unknown activity was refused.
C3_Witness ==
    /\ last.request.op = "signup"
    /\ last.request.activity_name \notin ActivityNamesIn(Activity)
    /\ last.response = NotFound

\* C4, as claimed: an unregister that is not interleaved with another
\* request and finds at least one row of the pair succeeds with
\* "Unregistered {email} from {activity_name}", removes exactly one matching
\* row, and afterwards the email is no longer listed for the activity.
C4_AsClaimed ==
    [][ \A p \in Procs :
          \A a \in {request[p].activity_name}, e \in {request[p].email} :
             ( /\ Completes(p) /\ request[p].op = "unregister" /\ solo
               /\ RowsOf(a, e) # {} ) =>
                  /\ last'.response = Unregistered(request[p])
                  /\ \E r \in RowsOf(a, e) : Participant' = Participant \ {r}
                  /\ Activity' = Activity
                  /\ ~Listed(a, e)'
      ]_vars

\* C4, amended: such an unregister succeeds with the message and removes
\* exactly one matching row; afterwards the email is no longer listed
\* exactly when that row was the only row of the pair (duplicate rows left
\* by racing signups keep it listed).
C4_UnregisterContract ==
    [][ \A p \in Procs :
          \A a \in {request[p].activity_name}, e \in {request[p].email} :
             ( /\ Completes(p) /\ request[p].op = "unregister" /\ solo
               /\ RowsOf(a, e) # {} ) =>
                  /\ last'.response = Unregistered(request[p])
                  /\ \E r \in RowsOf(a, e) : Participant' = Participant \ {r}
                  /\ Activity' = Activity
                  /\ ~Listed(a, e)' <=> Cardinality(RowsOf(a, e)) = 1
                  /\ TimesListed(a, e)' = TimesListed(a, e) - 1
      ]_vars

\* An unregister served alone succeeded and the email is still listed.
C4_Witness ==
    /\ last.request.op = "unregister"
    /\ last.alone
    /\ last.response = Unregistered(last.request)
    /\ Listed(last.request.activity_name, last.request.email)

\* C5, as claimed: an unregister (not interleaved with another request) for
\* an existing activity and a pair without a row fails with 400 "Student is
\* not signed up for this activity" and changes no table; and an unregister
\* made right after a successful unregister of the same pair fails so.
C5_AsClaimed ==
    [][ \A p \in Procs :
          \A a \in {request[p].activity_name}, e \in {request[p].email} :
             ( /\ Completes(p) /\ request[p].op = "unregister" /\ solo
               /\ a \in ActivityNamesIn(Activity) ) =>
                  /\ RowsOf(a, e) = {} =>
                        /\ last'.response = NotRegistered
                        /\ UNCHANGED <<Activity, Participant>>
                  /\ ( /\ last.request = request[p]
                       /\ last.response = Unregistered(request[p]) ) =>
                          last'.response = NotRegistered
      ]_vars

\* C5, amended: the first part as claimed; an unregister made right after a
\* successful unregister of the same pair fails with NotRegistered exactly
\* when no row of the pair is left, and succeeds again otherwise.
C5_UnregisterNotRegistered ==
    [][ \A p \in Procs :
          \A a \in {request[p].activity_name}, e \in {request[p].email} :
             ( /\ Completes(p) /\ request[p].op = "unregister" /\ solo
               /\ a \in ActivityNamesIn(Activity) ) =>
                  /\ RowsOf(a, e) = {} =>
                        /\ last'.response = NotRegistered
                        /\ UNCHANGED <<Activity, Participant>>
                  /\ ( /\ last.request = request[p]
                       /\ last.response = Unregistered(request[p]) ) =>
                          IF RowsOf(a, e) = {}
                          THEN last'.response = NotRegistered
                          ELSE last'.response = Unregistered(request[p])
      ]_vars

\* An unregister served alone was refused as not signed up.
C5_Witness ==
    /\ last.request.op = "unregister"
    /\ last.alone
    /\ last.response = NotRegistered
    /\ ~Listed(last.request.activity_name, last.request.email)

\* C6: with requests served one at a time, no activity ever has two
\* Participant rows with the same email.
C6_NoDuplicateRows ==
    \A r1 \in Participant, r2 \in Participant :
       (r1.activity_name = r2.activity_name /\ r1.email = r2.email) => r1 = r2

\* The seeded student of "Math Club" signed up again: an unregister and a
\* signup of the pair have both been served, and the store holds its 18
\* seeded pairs.
C6_Witness ==
    /\ last.request.op = "signup"
    /\ last.response = SignedUp(last.request)
    /\ Cardinality(Participant) = 18
    /\ \E r \in RowsOf("Math Club", "james@mergington.edu") : r.id > 18

\* The pairs (activity name, email) of the seed catalog.
SeedPairs ==
    {<<seed[i].name, seed[i].participants[j]>> :
        i \in DOMAIN seed, j \in 1..2}

CatalogIs(table) ==
    /\ Len(table) = Len(seed)
    /\ \A i \in DOMAIN seed :
          /\ table[i].name = seed[i].name
          /\ table[i].description = seed[i].description
          /\ table[i].schedule = seed[i].schedule
          /\ table[i].max_participants = seed[i].max_participants

\* C7: the startup seeding inserts the catalog and its participants, in one
\* step, only when the Activity table is empty; run against a store that
\* holds an Activity row it leaves both tables as they were.
C7_SeedingIdempotent ==
    [][ (~started /\ started') =>
           IF Activity = <<>>
           THEN /\ CatalogIs(Activity')
                /\ {<<r.activity_name, r.email>> : r \in Participant'} = SeedPairs
                /\ Cardinality(Participant') = Cardinality(SeedPairs)
           ELSE UNCHANGED <<Activity, Participant>>
      ]_vars

\* The application started on a store from which the seeded student of
\* "Math Club" had been unregistered, and the student is still not listed.
C7_Witness ==
    /\ started
    /\ last.request.op = "startup"
    /\ last.response.body.detail = "skipped"
    /\ ~Listed("Math Club", "james@mergington.edu")
    /\ Listed("Math Club", "benjamin@mergington.edu")

\* C8: a list-activities response has one entry per Activity row, and under
\* each activity every email as many times as the Participant table holds a
\* row of that activity and email: none missing, none of another activity.
C8_ListingMatchesRows ==
    last.request.op = "list" =>
       \A body \in {last.response.body} :
          /\ DOMAIN body = ActivityNamesIn(Activity)
          /\ Cardinality(DOMAIN body) = Len(Activity)
          /\ \A n \in DOMAIN body :
                \A e \in {r.email : r \in Participant}
                         \cup {body[n].participants[i] :
                                  i \in DOMAIN body[n].participants} :
                   Cardinality({i \in DOMAIN body[n].participants :
                                   body[n].participants[i] = e})
                      = Cardinality({r \in Participant :
                                        r.activity_name = n /\ r.email = e})

\* A listing was returned that shows a student who signed up since the
\* seeding, under "Math Club" and under no other activity.
C8_Witness ==
    /\ last.request.op = "list"
    /\ \E r \in RowsOf("Math Club", "james@mergington.edu") : r.id > 18
    /\ \A n \in DOMAIN last.response.body :
          (\E i \in DOMAIN last.response.body[n].participants :
              last.response.body[n].participants[i] = "james@mergington.edu")
             <=> n = "Math Club"

\* C9: under every interleaving, every Participant row names an existing
\* Activity row, and the Activity table is empty before the first startup
\* and exactly the seed catalog from then on.
C9_ReferentialIntegrity ==
    /\ \A r \in Participant : r.activity_name \in ActivityNamesIn(Activity)
    /\ IF Activity = <<>> THEN ~started /\ Participant = {}
                          ELSE CatalogIs(Activity)

\* Interleaved requests have been served, among them a signup for an unknown
\* activity and signups that left two rows of one pair.
C9_Witness ==
    /\ ~last.alone
    /\ last.request.op = "signup"
    /\ last.response = NotFound
    /\ ~C6_NoDuplicateRows

\* C10: nothing holds back a signup that has passed its check: its commit
\* inserts a row of the pair and answers with the success message even when
\* another request has committed a row of the same pair in between.
C10_SignupCommitsUnguarded ==
    [][ \A p \in Procs :
          \A a \in {request[p].activity_name}, e \in {request[p].email} :
             (Steps(p) /\ pc[p] = "signup_commit") =>
                /\ last'.response = SignedUp(request[p])
                /\ Cardinality(RowsOf(a, e))' = Cardinality(RowsOf(a, e)) + 1
      ]_vars

\* Two signups of one pair both committed: the pair has two rows, the second
\* committed by a request that overlapped another.
C10_Witness ==
    /\ last.request.op = "signup"
    /\ ~last.alone
    /\ last.response = SignedUp(last.request)
    /\ Cardinality(RowsOf(last.request.activity_name, last.request.email)) = 2

====
